---- MODULE Spec2Model ----
(***************************************************************************)
(* ChapterSmith AI backend (src/main.py): the chapter generation pipeline. *)
(* The document store holds two collections, "project" and "chapter"; each *)
(* HTTP handler is one action.  Text is a sequence of one-character        *)
(* strings, a Mongo document is a function from field names to values, and *)
(* Python's None is the value None (text) or "None" (enumerations); an     *)
(* optional number is the set of its values, {} for None.  written records *)
(* which call wrote the content of a chapter; calls holds the position and *)
(* the local variables of the requests that run concurrently.              *)
(***************************************************************************)
EXTENDS Integers, Sequences, FiniteSets, TLC

VARIABLES projects, chapters, openai_client, issued, last, nops, written, calls

vars == <<projects, chapters, openai_client, issued, last, nops, written, calls>>

(* ------------------------------ bounds --------------------------------- *)
\* chapter numbers a request may carry are 1..MaxNumber
MaxNumber == 2
\* number of handler invocations in one behaviour
MaxOps == 3
\* longest provider completion explored by the parser specification
MaxLen == 4

(* ------------------------------- text ---------------------------------- *)
None == <<"None">>

Letters == {"a", "b"}

Whitespace == {" ", "\n"}

Chars == Letters \cup Whitespace

\* all texts of at most n characters
Texts(n) == UNION {[1..k -> Chars] : k \in 0..n}

\* Python truthiness of an Optional[str]
Truthy(s) == s # None /\ s # <<>>

RECURSIVE LStrip(_)
LStrip(s) == IF s # <<>> /\ Head(s) \in Whitespace THEN LStrip(Tail(s)) ELSE s

RECURSIVE RStrip(_)
RStrip(s) ==
    IF s # <<>> /\ s[Len(s)] \in Whitespace
    THEN RStrip(SubSeq(s, 1, Len(s) - 1))
    ELSE s

\* str.strip()
Strip(s) == RStrip(LStrip(s))

\* position of the first line break of s, 0 when there is none
FirstBreak(s) ==
    IF \E i \in 1..Len(s) : s[i] = "\n"
    THEN CHOOSE i \in 1..Len(s) : s[i] = "\n" /\ \A j \in 1..(i - 1) : s[j] # "\n"
    ELSE 0

\* str.splitlines(): no trailing empty line after a final line break
RECURSIVE SplitLines(_)
SplitLines(s) ==
    IF s = <<>> THEN <<>>
    ELSE IF FirstBreak(s) = 0 THEN <<s>>
    ELSE <<SubSeq(s, 1, FirstBreak(s) - 1)>>
         \o SplitLines(SubSeq(s, FirstBreak(s) + 1, Len(s)))

\* "\n".join(lines)
RECURSIVE JoinLines(_)
JoinLines(lines) ==
    IF lines = <<>> THEN <<>>
    ELSE IF Len(lines) = 1 THEN lines[1]
    ELSE lines[1] \o <<"\n">> \o JoinLines(Tail(lines))

\* length of the longest prefix of s without whitespace
RECURSIVE WordLen(_)
WordLen(s) ==
    IF s = <<>> \/ Head(s) \in Whitespace THEN 0 ELSE 1 + WordLen(Tail(s))

\* str.split(): the words of s, split on runs of whitespace
RECURSIVE Split(_)
Split(s) ==
    IF LStrip(s) = <<>> THEN <<>>
    ELSE <<SubSeq(LStrip(s), 1, WordLen(LStrip(s)))>>
         \o Split(SubSeq(LStrip(s), WordLen(LStrip(s)) + 1, Len(LStrip(s))))

\* a word count that splits on single blanks only, as s.split(" ") would
CountWordsOnBlank(content) ==
    IF Truthy(content)
    THEN 1 + Cardinality({i \in 1..Len(content) : content[i] = " "})
    ELSE 0

\* len(content.split()) if content else 0
CountWords(content) == IF Truthy(content) THEN Len(Split(content)) ELSE 0

Digits == <<"0", "1", "2", "3", "4", "5", "6", "7", "8", "9">>

\* str(n) for n >= 0
RECURSIVE IntToStr(_)
IntToStr(n) ==
    IF n < 10 THEN <<Digits[n + 1]>>
    ELSE IntToStr(n \div 10) \o <<Digits[(n % 10) + 1]>>

\* f"Chapter {payload.number}"
ChapterTitle(n) == <<"C", "h", "a", "p", "t", "e", "r", " ">> \o IntToStr(n)

(* --------------------------- response parser --------------------------- *)
\* lines = [ln.strip() for ln in (text or "").splitlines()]
StrippedLines(text) ==
    LET ls == SplitLines(text) IN [i \in 1..Len(ls) |-> Strip(ls[i])]

\* index of the first non-empty stripped line, 0 for Python's None
FirstNonEmptyIndex(lines) ==
    IF \E i \in 1..Len(lines) : lines[i] # <<>>
    THEN CHOOSE i \in 1..Len(lines) :
            lines[i] # <<>> /\ \A j \in 1..(i - 1) : lines[j] = <<>>
    ELSE 0

ExtractedTitle(text, fallback) ==
    LET lines == StrippedLines(text)
        idx == FirstNonEmptyIndex(lines)
    IN IF idx = 0 THEN fallback ELSE lines[idx]

\* cleaned_lines = lines[first_nonempty_index+1:], [] when there is no title
CleanedLines(text) ==
    LET lines == StrippedLines(text)
        idx == FirstNonEmptyIndex(lines)
    IN IF idx = 0 THEN <<>> ELSE SubSeq(lines, idx + 1, Len(lines))

\* final_content = "\n".join(cleaned_lines).strip() if cleaned_lines else text
FinalContent(text) ==
    IF CleanedLines(text) # <<>>
    THEN Strip(JoinLines(CleanedLines(text)))
    ELSE text

(* ------------------------------- inputs -------------------------------- *)
\* well-formed ObjectId strings, in the order the store assigns them
HexIds == <<"a1", "a2">>

\* project_id strings a request may carry; "zz" is not a 24-digit hex string
ProjectIdStrings == {"a1", "a2", "zz"}

Numbers == 1..MaxNumber

PovModes == {"female", "male", "dual"}

\* CreateProjectRequest.chapter_count: Literal[3,4,5,6]
ChapterCounts == {3, 4, 5, 6}

\* the count of the projects made where the count does not matter
SomeChapterCount == CHOOSE c \in ChapterCounts : TRUE

\* the value of an optional number that is not None
Value(opt) == CHOOSE v \in opt : TRUE

\* GenerateChapterRequest.model default, and temperature default in tenths
DefaultModel == "gpt-4o-mini"

DefaultTemperature == 7

\* GenerateChapterRequest.temperature: ge=0.0, le=2.0, in tenths
MaxTemperature == 20

\* the accepted temperatures: None or a value of the range
Temperatures == {{}} \cup {{t} : t \in 0..MaxTemperature}

\* the model identifiers of the requests: None, the default, another one
Models == {"None", DefaultModel, "m1"}

Overrides == {"None", "female", "male"}

\* the SaveChapterRequest bodies explored: title, content and pov_used
SaveRequests ==
    {[title |-> None, content |-> <<>>, pov_used |-> "None"],
     [title |-> None, content |-> <<" ">>, pov_used |-> "None"],
     [title |-> <<"b">>, content |-> <<" ", "a", "\n", " ", "b">>,
      pov_used |-> "male"]}

\* the provider call raises
Raise == <<"Exception">>

\* message.content of a completion: None or a text
Completions == {None, <<"a", "\n", "b", " ", "b">>}

Replies == {Raise} \cup Completions

\* GenerateChapterRequest.override_pov of the generate requests explored
GenerateOverrides == {"None", "male"}

\* provider named by the request, and what the provider does when called
ProviderCalls == {<<"openai", r>> : r \in Replies} \cup {<<"None", Raise>>}

(* ---------------------------- document store --------------------------- *)
\* bson.ObjectId(s) raises InvalidId unless s is a well-formed id string
ValidObjectId(s) == \E i \in 1..Len(HexIds) : HexIds[i] = s

Key(project_id, number) == <<project_id, number>>

\* find_one on the chapter collection: the document or "None"
HasChapter(store, k) == k \in DOMAIN store

\* an upsert that replaces the matched document instead of merging into it
UpsertReplace(store, project_id, number, onInsert, set) ==
    (Key(project_id, number)
        :> (set @@ onInsert @@ [project_id |-> project_id, number |-> number]))
    @@ store

\* update_one(filter, {"$set": set, "$setOnInsert": onInsert}, upsert=True)
Upsert(store, project_id, number, onInsert, set) ==
    LET k == Key(project_id, number) IN
    IF HasChapter(store, k)
    THEN [store EXCEPT ![k] = set @@ store[k]]
    ELSE (k :> (set @@ onInsert @@ [project_id |-> project_id, number |-> number]))
         @@ store

\* delete_one / delete_many on the chapter collection
RemoveChapters(store, ks) == [k \in (DOMAIN store) \ ks |-> store[k]]

RemoveProject(store, project_id) ==
    [p \in (DOMAIN store) \ {project_id} |-> store[p]]

\* a filter that matches one document only, as delete_one would
OneChapterOf(store, project_id) ==
    LET ks == {k \in DOMAIN store : store[k].project_id = project_id}
    IN IF ks = {} THEN {} ELSE {CHOOSE k \in ks : \A j \in ks : k[2] <= j[2]}

\* the documents matched by the filter {"project_id": project_id}
ChaptersOf(store, project_id) ==
    {k \in DOMAIN store : store[k].project_id = project_id}

\* all orders in which a cursor may return the documents ks
Orders(ks) ==
    {f \in [1..Cardinality(ks) -> ks] : \A k \in ks : \E i \in DOMAIN f : f[i] = k}

\* find({"project_id": project_id}) without a sort: any order of the matches
NaturalOrders(store, project_id) == Orders(ChaptersOf(store, project_id))

\* docs, sorted by number, with the document at k put in its place
RECURSIVE InsertByNumber(_, _)
InsertByNumber(k, sorted) ==
    IF sorted = <<>> THEN <<k>>
    ELSE IF k[2] < Head(sorted)[2] THEN <<k>> \o sorted
    ELSE <<Head(sorted)>> \o InsertByNumber(k, Tail(sorted))

\* a cursor that is read as the store returns it
Unsorted(docs) == docs

\* cursor.sort("number", 1)
RECURSIVE SortByNumber(_)
SortByNumber(docs) ==
    IF docs = <<>> THEN <<>>
    ELSE InsertByNumber(docs[Len(docs)], SortByNumber(SubSeq(docs, 1, Len(docs) - 1)))

\* the "## heading / content" parts export appends, one per document of docs
Sections(store, docs) ==
    [i \in 1..Len(docs) |->
        [number |-> store[docs[i]].number,
         heading |-> IF "title" \in DOMAIN store[docs[i]]
                        /\ Truthy(store[docs[i]].title)
                     THEN store[docs[i]].title
                     ELSE ChapterTitle(store[docs[i]].number),
         content |-> IF "content" \in DOMAIN store[docs[i]]
                     THEN Strip(store[docs[i]].content)
                     ELSE <<>>]]

\* status of the chapter document at k before a call, "absent" when none
PriorStatus(store, k) == IF HasChapter(store, k) THEN store[k].status ELSE "absent"

(* --------------------------- generation client ------------------------- *)
\* model=payload.model or "gpt-4o-mini"
RequestModel(model) == IF model \in {"None", ""} THEN DefaultModel ELSE model

\* temperature=payload.temperature or 0.7: None and 0.0 are both falsy
RequestTemperature(temperature) ==
    IF temperature = {} \/ temperature = {0}
    THEN {DefaultTemperature}
    ELSE temperature

\* a client that calls the provider a second time when the first call raises
ProviderRequestsWithRetry(reply) == IF reply = <<"Exception">> THEN 2 ELSE 1

\* the requests one invocation sends once it reaches the provider call: the
\* single chat.completions.create of the try block, whatever its outcome
ProviderRequests(reply) == 1

\* a failure path that records the failure in the chapter
MarksError(store, project_id, number) ==
    [store EXCEPT ![<<project_id, number>>] = [status |-> "error"] @@ @]

\* the chapter collection after the provider check or call raised: the
\* HTTPException leaves the handler without a further write
AfterProviderFailure(store, project_id, number) == store

(* ----------------------------- POV resolver ---------------------------- *)
\* a resolver that hands the mode of a dual project on as it is
ResolvedKeepsDual(pov_mode, number, override_pov) ==
    IF override_pov \in {"female", "male"} THEN override_pov ELSE pov_mode

\* a resolver that lets a single-POV project mode win over the override
ResolvedModeFirst(pov_mode, number, override_pov) ==
    IF pov_mode = "female" THEN "female"
    ELSE IF pov_mode = "male" THEN "male"
    ELSE IF override_pov \in {"female", "male"} THEN override_pov
    ELSE IF number % 2 = 1 THEN "female" ELSE "male"

Resolved(pov_mode, number, override_pov) ==
    IF override_pov \in {"female", "male"} THEN override_pov
    ELSE IF pov_mode = "female" THEN "female"
    ELSE IF pov_mode = "male" THEN "male"
    ELSE IF number % 2 = 1 THEN "female" ELSE "male"

\* a prepare that writes the status on every call
PrepareUpsertSetsStatus(store, project_id, number, resolved) ==
    Upsert(store, project_id, number,
           [project_id |-> project_id, number |-> number],
           [pov_used |-> resolved, title |-> ChapterTitle(number),
            status |-> "pending"])

\* a prepare that writes title and pov_used on insert only
PrepareUpsertOnInsertOnly(store, project_id, number, resolved) ==
    Upsert(store, project_id, number,
           [project_id |-> project_id, number |-> number, status |-> "pending",
            pov_used |-> resolved, title |-> ChapterTitle(number)],
           <<>>)

\* the chapter collection after the placeholder upsert of prepare
PrepareUpsert(store, project_id, number, resolved) ==
    Upsert(store, project_id, number,
           [project_id |-> project_id, number |-> number, status |-> "pending"],
           [pov_used |-> resolved, title |-> ChapterTitle(number)])

\* a generate whose final update leaves pov_used as the last prepare set it
GenerateUpsertNoPov(store, project_id, number, resolved, text) ==
    Upsert(store, project_id, number, <<>>,
           [title |-> ExtractedTitle(text, ChapterTitle(number)),
            content |-> FinalContent(text),
            status |-> "generated",
            word_count |-> CountWords(FinalContent(text))])

\* a generate whose final update leaves the word count out
GenerateUpsertNoWordCount(store, project_id, number, resolved, text) ==
    Upsert(store, project_id, number, <<>>,
           [title |-> ExtractedTitle(text, ChapterTitle(number)),
            content |-> FinalContent(text),
            pov_used |-> resolved,
            status |-> "generated"])

\* a generate whose final update leaves the status as it is
GenerateUpsertNoStatus(store, project_id, number, resolved, text) ==
    Upsert(store, project_id, number, <<>>,
           [title |-> ExtractedTitle(text, ChapterTitle(number)),
            content |-> FinalContent(text),
            pov_used |-> resolved,
            word_count |-> CountWords(FinalContent(text))])

\* the chapter collection after the final update of generate
GenerateUpsert(store, project_id, number, resolved, text) ==
    Upsert(store, project_id, number, <<>>,
           [title |-> ExtractedTitle(text, ChapterTitle(number)),
            content |-> FinalContent(text),
            pov_used |-> resolved,
            status |-> "generated",
            word_count |-> CountWords(FinalContent(text))])

\* a save that derives the status from the submitted content
SaveUpsertByNewContent(store, project_id, number, title, content, pov_used) ==
    Upsert(store, project_id, number, <<>>,
           [title |-> title,
            content |-> content,
            pov_used |-> pov_used,
            status |-> IF Truthy(content) THEN "edited" ELSE "generated",
            word_count |-> CountWords(content)])

\* existing and existing.get("content"), for existing = find_one(...)
ExistingHasContent(store, k) ==
    /\ HasChapter(store, k)
    /\ "content" \in DOMAIN store[k]
    /\ Truthy(store[k].content)

\* the update_one of save, given what the find_one before it returned
SaveUpdate(store, project_id, number, title, content, pov_used, had) ==
    Upsert(store, project_id, number, <<>>,
           [title |-> title,
            content |-> content,
            pov_used |-> pov_used,
            status |-> IF had THEN "edited" ELSE "generated",
            word_count |-> CountWords(content)])

\* the chapter collection after the update of save
SaveUpsert(store, project_id, number, title, content, pov_used) ==
    SaveUpdate(store, project_id, number, title, content, pov_used,
               ExistingHasContent(store, Key(project_id, number)))

\* updates = {k: v for k, v in payload.model_dump().items() if v is not None}
ProjectUpdates(payload) ==
    (IF payload.pov_mode # "None" THEN [pov_mode |-> payload.pov_mode] ELSE <<>>)
    @@ (IF payload.chapter_count # {}
        THEN [chapter_count |-> Value(payload.chapter_count)] ELSE <<>>)

(* ------------------------------- state --------------------------------- *)
Init ==
    /\ projects = <<>>
    /\ chapters = <<>>
    /\ openai_client \in {"None", "client"}
    /\ issued = 0
    /\ last = [op |-> "start"]
    /\ nops = 0
    /\ written = <<>>
    /\ calls = <<>>

(* ------------------------------ handlers ------------------------------- *)
\* POST /api/projects: the store assigns the next unused id
create_project(pov_mode, chapter_count) ==
    /\ nops < MaxOps
    /\ issued < Len(HexIds)
    /\ projects' = (HexIds[issued + 1] :> [pov_mode |-> pov_mode,
                                            chapter_count |-> chapter_count])
                   @@ projects
    /\ issued' = issued + 1
    /\ last' = [op |-> "create_project", project_id |-> HexIds[issued + 1],
                status |-> 200]
    /\ nops' = nops + 1
    /\ UNCHANGED <<chapters, openai_client, written, calls>>

\* PUT /api/projects/{project_id}; payload holds pov_mode ("None" or a mode)
\* and chapter_count ({} or one count)
update_project(project_id, payload) ==
    /\ nops < MaxOps
    /\ IF ~ValidObjectId(project_id)
       THEN /\ UNCHANGED projects
            /\ last' = [op |-> "update_project", project_id |-> project_id,
                        status |-> 500]
       ELSE IF project_id \notin DOMAIN projects
       THEN /\ UNCHANGED projects
            /\ last' = [op |-> "update_project", project_id |-> project_id,
                        status |-> 404]
       ELSE /\ projects' = [projects EXCEPT ![project_id] =
                               ProjectUpdates(payload) @@ @]
            /\ last' = [op |-> "update_project", project_id |-> project_id,
                        status |-> 200]
    /\ nops' = nops + 1
    /\ UNCHANGED <<chapters, openai_client, issued, written, calls>>

\* DELETE /api/projects/{project_id}; fault names the deletion that raises
delete_project(project_id, fault) ==
    /\ nops < MaxOps
    /\ IF ~ValidObjectId(project_id) \/ fault = "first"
       THEN /\ UNCHANGED <<projects, chapters, written>>
            /\ last' = [op |-> "delete_project", project_id |-> project_id,
                        status |-> 500]
       ELSE IF fault = "second"
       THEN /\ projects' = RemoveProject(projects, project_id)
            /\ UNCHANGED <<chapters, written>>
            /\ last' = [op |-> "delete_project", project_id |-> project_id,
                        status |-> 500]
       ELSE /\ projects' = RemoveProject(projects, project_id)
            /\ chapters' = RemoveChapters(chapters, ChaptersOf(chapters, project_id))
            /\ written' = RemoveChapters(written, ChaptersOf(chapters, project_id))
            /\ last' = [op |-> "delete_project", project_id |-> project_id,
                        status |-> 200,
                        deleted |-> Cardinality(ChaptersOf(chapters, project_id))]
    /\ nops' = nops + 1
    /\ UNCHANGED <<openai_client, issued, calls>>

\* DELETE /api/projects/{project_id}/chapters/{number}
delete_chapter(project_id, number) ==
    /\ nops < MaxOps
    /\ chapters' = RemoveChapters(chapters, {Key(project_id, number)})
    /\ written' = RemoveChapters(written, {Key(project_id, number)})
    /\ last' = [op |-> "delete_chapter", project_id |-> project_id,
                number |-> number, status |-> 200]
    /\ nops' = nops + 1
    /\ UNCHANGED <<projects, openai_client, issued, calls>>

\* POST /api/chapters/save
save_chapter(project_id, number, title, content, pov_used) ==
    /\ nops < MaxOps
    /\ chapters' = SaveUpsert(chapters, project_id, number, title, content, pov_used)
    /\ last' = [op |-> "save_chapter", project_id |-> project_id,
                number |-> number, status |-> 200,
                prior |-> PriorStatus(chapters, Key(project_id, number)),
                content |-> content, word_count |-> CountWords(content)]
    /\ written' = (Key(project_id, number) :> [by |-> "save", pov |-> pov_used])
                  @@ written
    /\ nops' = nops + 1
    /\ UNCHANGED <<projects, openai_client, issued, calls>>

\* POST /api/chapters/prepare
prepare_chapter_generation(project_id, number, override_pov) ==
    /\ nops < MaxOps
    /\ IF ~ValidObjectId(project_id)
       THEN /\ UNCHANGED chapters
            /\ last' = [op |-> "prepare", project_id |-> project_id,
                        number |-> number, status |-> 500, detail |-> "InvalidId"]
       ELSE IF project_id \notin DOMAIN projects
       THEN /\ UNCHANGED chapters
            /\ last' = [op |-> "prepare", project_id |-> project_id,
                        number |-> number, status |-> 404,
                        detail |-> "Project not found"]
       ELSE LET resolved == Resolved(projects[project_id].pov_mode, number,
                                     override_pov)
            IN /\ chapters' = PrepareUpsert(chapters, project_id, number, resolved)
               /\ last' = [op |-> "prepare", project_id |-> project_id,
                           number |-> number, status |-> 200,
                           detail |-> "ok",
                           prior |-> PriorStatus(chapters, Key(project_id, number)),
                           override_pov |-> override_pov,
                           resolved_pov |-> resolved,
                           chapter_title |-> ChapterTitle(number)]
    /\ nops' = nops + 1
    /\ UNCHANGED <<projects, openai_client, issued, written, calls>>

\* POST /api/chapters/generate; reply is what the provider does when called
generate_chapter(project_id, number, override_pov, provider, reply, model, temperature) ==
    /\ nops < MaxOps
    /\ IF ~ValidObjectId(project_id)
       THEN /\ UNCHANGED <<chapters, written>>
            /\ last' = [op |-> "generate", project_id |-> project_id,
                        provider |-> provider,
                        number |-> number, status |-> 500, sent |-> 0,
                        detail |-> "InvalidId"]
       ELSE IF project_id \notin DOMAIN projects
       THEN /\ UNCHANGED <<chapters, written>>
            /\ last' = [op |-> "generate", project_id |-> project_id,
                        provider |-> provider,
                        number |-> number, status |-> 404, sent |-> 0,
                        detail |-> "Project not found"]
       ELSE LET resolved == Resolved(projects[project_id].pov_mode, number,
                                     override_pov)
                prepared == PrepareUpsert(chapters, project_id, number, resolved)
                prior == PriorStatus(chapters, Key(project_id, number))
                text == IF reply = None THEN <<>> ELSE reply
                request == [model |-> RequestModel(model),
                            temperature |-> RequestTemperature(temperature)]
                payload == [model |-> model, temperature |-> temperature]
            IN IF provider # "openai"
               THEN /\ chapters' = AfterProviderFailure(prepared, project_id, number)
                    /\ UNCHANGED written
                    /\ last' = [op |-> "generate", project_id |-> project_id,
                                provider |-> provider,
                                number |-> number, status |-> 400, sent |-> 0,
                                detail |-> "Unsupported provider",
                                prior |-> prior, resolved_pov |-> resolved]
               ELSE IF openai_client = "None"
               THEN /\ chapters' = AfterProviderFailure(prepared, project_id, number)
                    /\ UNCHANGED written
                    /\ last' = [op |-> "generate", project_id |-> project_id,
                                provider |-> provider,
                                number |-> number, status |-> 400, sent |-> 0,
                                detail |-> "OpenAI is not configured",
                                prior |-> prior, resolved_pov |-> resolved]
               ELSE IF reply = Raise
               THEN /\ chapters' = AfterProviderFailure(prepared, project_id, number)
                    /\ UNCHANGED written
                    /\ last' = [op |-> "generate", project_id |-> project_id,
                                provider |-> provider,
                                number |-> number, status |-> 500,
                                sent |-> ProviderRequests(reply),
                                detail |-> "OpenAI error",
                                prior |-> prior, resolved_pov |-> resolved,
                                payload |-> payload, request |-> request]
               ELSE /\ chapters' = GenerateUpsert(prepared, project_id, number,
                                                  resolved, text)
                    /\ written' = (Key(project_id, number)
                                      :> [by |-> "generate", pov |-> resolved])
                                  @@ written
                    /\ last' = [op |-> "generate", project_id |-> project_id,
                                provider |-> provider,
                                number |-> number, status |-> 200,
                                sent |-> ProviderRequests(reply),
                                detail |-> "ok",
                                prior |-> prior, resolved_pov |-> resolved,
                                payload |-> payload, request |-> request,
                                text |-> text,
                                title |-> ExtractedTitle(text, ChapterTitle(number)),
                                content |-> FinalContent(text),
                                word_count |-> CountWords(FinalContent(text))]
    /\ nops' = nops + 1
    /\ UNCHANGED <<projects, openai_client, issued, calls>>

\* GET /api/projects/{project_id}/export; natural is the order in which the
\* store holds the project's chapters
export_project(project_id) ==
    /\ nops < MaxOps
    /\ \E natural \in NaturalOrders(chapters, project_id) :
       last' = IF ~ValidObjectId(project_id)
               THEN [op |-> "export", project_id |-> project_id,
                     status |-> 500, detail |-> "InvalidId"]
               ELSE IF project_id \notin DOMAIN projects
               THEN [op |-> "export", project_id |-> project_id,
                     status |-> 404, detail |-> "Project not found"]
               ELSE [op |-> "export", project_id |-> project_id,
                     status |-> 200, detail |-> "ok",
                     sections |-> Sections(chapters, SortByNumber(natural))]
    /\ nops' = nops + 1
    /\ UNCHANGED <<projects, chapters, openai_client, issued, written, calls>>

Next ==
    \/ \E m \in PovModes : create_project(m, SomeChapterCount)
    \/ \E p \in ProjectIdStrings, f \in {"none", "first", "second"} :
           delete_project(p, f)
    \/ \E p \in ProjectIdStrings, n \in Numbers : delete_chapter(p, n)
    \/ \E p \in ProjectIdStrings, n \in Numbers, q \in SaveRequests :
           save_chapter(p, n, q.title, q.content, q.pov_used)
    \/ \E p \in ProjectIdStrings, n \in Numbers, o \in Overrides :
           prepare_chapter_generation(p, n, o)
    \/ \E p \in ProjectIdStrings, n \in Numbers, o \in GenerateOverrides,
          c \in ProviderCalls :
           generate_chapter(p, n, o, c[1], c[2], DefaultModel, {DefaultTemperature})
    \/ \E p \in ProjectIdStrings : export_project(p)

Spec == Init /\ [][Next]_vars

(* ------------------- the parser on every short text -------------------- *)
\* one project exists, the provider is configured, one call remains
InitParse ==
    /\ projects = ("a1" :> [pov_mode |-> "dual", chapter_count |-> SomeChapterCount])
    /\ chapters = <<>>
    /\ openai_client = "client"
    /\ issued = 1
    /\ last = [op |-> "create_project", project_id |-> "a1", status |-> 200]
    /\ nops = MaxOps - 1
    /\ written = <<>>
    /\ calls = <<>>

NextParse ==
    \/ \E n \in Numbers, r \in Texts(MaxLen) :
           generate_chapter("a1", n, "None", "openai", r,
                            DefaultModel, {DefaultTemperature})
    \/ \E n \in Numbers, c \in Texts(MaxLen) :
           save_chapter("a1", n, None, c, "None")

SpecParse == InitParse /\ [][NextParse]_vars

(* ------------------------- concurrent requests ------------------------- *)
\* Two requests run at the same time, each in its own worker.  A store call
\* (find_one, update_one) is atomic; the workers interleave between the
\* store calls of a handler.  calls[p] is the position and the local
\* variables of the request of worker p; at is the value of nops after its
\* last update, so a larger at is a later write.
Procs == {"w1", "w2"}

\* save: existing = db["chapter"].find_one(...)
save_chapter_find_one(p, project_id, number, q) ==
    /\ calls[p].pc = "idle"
    /\ calls' = [calls EXCEPT ![p] =
                    [pc |-> "save_found", op |-> "save_chapter",
                     project_id |-> project_id, number |-> number,
                     payload |-> q,
                     had |-> ExistingHasContent(chapters, Key(project_id, number))]]
    /\ nops' = nops + 1
    /\ UNCHANGED <<projects, chapters, openai_client, issued, last, written>>

\* save: db["chapter"].update_one(..., upsert=True), with the status decided
\* from what find_one returned
save_chapter_update_one(p) ==
    /\ calls[p].pc = "save_found"
    /\ LET c == calls[p]
       IN /\ chapters' = SaveUpdate(chapters, c.project_id, c.number,
                                    c.payload.title, c.payload.content,
                                    c.payload.pov_used, c.had)
          /\ written' = (Key(c.project_id, c.number)
                            :> [by |-> "save", pov |-> c.payload.pov_used])
                        @@ written
          /\ last' = [op |-> "save_chapter", project_id |-> c.project_id,
                      number |-> c.number, status |-> 200,
                      prior |-> PriorStatus(chapters, Key(c.project_id, c.number)),
                      content |-> c.payload.content,
                      word_count |-> CountWords(c.payload.content)]
          /\ calls' = [calls EXCEPT ![p] = [pc |-> "done", at |-> nops + 1] @@ c]
    /\ nops' = nops + 1
    /\ UNCHANGED <<projects, openai_client, issued>>

\* generate: plan = prepare_chapter_generation(...) for a project that exists
generate_chapter_prepare(p, project_id, number, override_pov) ==
    /\ calls[p].pc = "idle"
    /\ project_id \in DOMAIN projects
    /\ LET resolved == Resolved(projects[project_id].pov_mode, number, override_pov)
       IN /\ chapters' = PrepareUpsert(chapters, project_id, number, resolved)
          /\ calls' = [calls EXCEPT ![p] =
                          [pc |-> "prepared", op |-> "generate",
                           project_id |-> project_id, number |-> number,
                           resolved |-> resolved]]
    /\ nops' = nops + 1
    /\ UNCHANGED <<projects, openai_client, issued, last, written>>

\* generate: the provider call of a configured openai client and the final
\* update_one
generate_chapter_update_one(p, reply) ==
    /\ calls[p].pc = "prepared"
    /\ openai_client = "client"
    /\ LET c == calls[p]
           text == IF reply = None THEN <<>> ELSE reply
       IN IF reply = Raise
          THEN /\ chapters' = AfterProviderFailure(chapters, c.project_id, c.number)
               /\ UNCHANGED written
               /\ last' = [op |-> "generate", project_id |-> c.project_id,
                           provider |-> "openai", number |-> c.number,
                           status |-> 500, sent |-> ProviderRequests(reply),
                           detail |-> "OpenAI error", resolved_pov |-> c.resolved]
               /\ calls' = [calls EXCEPT ![p] = [pc |-> "failed"] @@ c]
          ELSE /\ chapters' = GenerateUpsert(chapters, c.project_id, c.number,
                                             c.resolved, text)
               /\ written' = (Key(c.project_id, c.number)
                                 :> [by |-> "generate", pov |-> c.resolved])
                             @@ written
               /\ last' = [op |-> "generate", project_id |-> c.project_id,
                           provider |-> "openai", number |-> c.number,
                           status |-> 200, sent |-> ProviderRequests(reply),
                           detail |-> "ok", resolved_pov |-> c.resolved,
                           text |-> text]
               /\ calls' = [calls EXCEPT ![p] =
                               [pc |-> "done", at |-> nops + 1, text |-> text] @@ c]
    /\ nops' = nops + 1
    /\ UNCHANGED <<projects, openai_client, issued>>

\* one project exists and the provider is configured; both workers are idle
InitConc ==
    /\ projects = ("a1" :> [pov_mode |-> "dual", chapter_count |-> SomeChapterCount])
    /\ chapters = <<>>
    /\ openai_client = "client"
    /\ issued = 1
    /\ last = [op |-> "create_project", project_id |-> "a1", status |-> 200]
    /\ nops = 0
    /\ written = <<>>
    /\ calls = [p \in Procs |-> [pc |-> "idle"]]

NextConc ==
    \/ \E p \in Procs, n \in Numbers, q \in SaveRequests :
           save_chapter_find_one(p, "a1", n, q)
    \/ \E p \in Procs : save_chapter_update_one(p)
    \/ \E p \in Procs, n \in Numbers, o \in Overrides :
           generate_chapter_prepare(p, "a1", n, o)
    \/ \E p \in Procs, r \in Replies : generate_chapter_update_one(p, r)

SpecConc == InitConc /\ [][NextConc]_vars

(* ------------------- the request sent to the provider ------------------ *)
\* one project exists and the provider is configured; a generate is called
\* with every model and every accepted temperature
NextRequest ==
    \E n \in Numbers, r \in Replies, mo \in Models, t \in Temperatures :
        generate_chapter("a1", n, "None", "openai", r, mo, t)

SpecRequest == InitParse /\ [][NextRequest]_vars

(* ----------------------- the life of a project ------------------------- *)
\* UpdateProjectRequest bodies: each field None or a value of its Literal
UpdateBodies ==
    [pov_mode : {"None", "male"},
     chapter_count : {{}} \cup {{c} : c \in ChapterCounts}]

NextProject ==
    \/ \E m \in PovModes, c \in ChapterCounts : create_project(m, c)
    \/ \E p \in ProjectIdStrings, b \in UpdateBodies : update_project(p, b)
    \/ \E p \in ProjectIdStrings, f \in {"none", "first", "second"} :
           delete_project(p, f)

SpecProject == Init /\ [][NextProject]_vars

(* ------------------ export of the chapters of a project ---------------- *)
\* one project exists; chapters are written in any order and exported
InitExport ==
    /\ projects = ("a1" :> [pov_mode |-> "dual", chapter_count |-> SomeChapterCount])
    /\ chapters = <<>>
    /\ openai_client = "client"
    /\ issued = 1
    /\ last = [op |-> "create_project", project_id |-> "a1", status |-> 200]
    /\ nops = 0
    /\ written = <<>>
    /\ calls = <<>>

NextExport ==
    \/ \E p \in {"a1", "a2"}, n \in Numbers, q \in SaveRequests :
           save_chapter(p, n, q.title, q.content, q.pov_used)
    \/ \E n \in Numbers, o \in Overrides : prepare_chapter_generation("a1", n, o)
    \/ \E n \in Numbers : delete_chapter("a1", n)
    \/ export_project("a1")

SpecExport == InitExport /\ [][NextExport]_vars

(* ------------------------------ properties ----------------------------- *)
\* the key the most recent request addressed
LastKey == Key(last.project_id, last.number)

\* the number of words of s: positions where a run of non-whitespace starts
Tokens(s) ==
    Cardinality({i \in 1..Len(s) :
        /\ s[i] \notin Whitespace
        /\ (i = 1 \/ s[i - 1] \in Whitespace)})

\* document new is document old with exactly the fields fs written
WritesOnly(old, new, fs) ==
    /\ DOMAIN new = DOMAIN old \cup fs
    /\ \A f \in (DOMAIN old) \ fs : new[f] = old[f]

\* C1: after a successful generate the record at (project_id, number) has
\* status "generated" and carries the parsed title, the parsed content, the
\* POV resolved for the call and the word count of the parsed content,
\* whatever state the record was in before.
GenerateOverwrites ==
    (last.op = "generate" /\ last.status = 200) =>
        /\ HasChapter(chapters, LastKey)
        /\ chapters[LastKey].status = "generated"
        /\ chapters[LastKey].title
               = ExtractedTitle(last.text, ChapterTitle(last.number))
        /\ chapters[LastKey].content = FinalContent(last.text)
        /\ chapters[LastKey].pov_used = last.resolved_pov
        /\ chapters[LastKey].word_count = Tokens(FinalContent(last.text))
        /\ last.title = chapters[LastKey].title
        /\ last.content = chapters[LastKey].content
        /\ last.word_count = chapters[LastKey].word_count

\* a generate succeeded on a record that a save had written before
WitnessGenerateOverwrites ==
    /\ last.op = "generate"
    /\ last.status = 200
    /\ last.prior = "generated"
    /\ last.text # <<>>
    /\ chapters[LastKey].status = "generated"

\* C2: prepare on an existing record leaves its content, word_count and
\* status as they are, sets title to the placeholder and pov_used to the
\* resolved POV, and changes no other chapter record and no project.
PrepareKeepsContent ==
    [][(/\ last'.op = "prepare"
        /\ last'.status = 200
        /\ HasChapter(chapters, Key(last'.project_id, last'.number)))
       => LET k == Key(last'.project_id, last'.number) IN
          /\ DOMAIN chapters' = DOMAIN chapters
          /\ \A j \in (DOMAIN chapters) \ {k} : chapters'[j] = chapters[j]
          /\ WritesOnly(chapters[k], chapters'[k], {"title", "pov_used"})
          /\ chapters'[k].title = ChapterTitle(last'.number)
          /\ chapters'[k].pov_used = last'.resolved_pov
          /\ projects' = projects]_vars

\* a chapter with content was prepared again and still has its content
WitnessPrepareKeepsContent ==
    /\ last.op = "prepare"
    /\ last.status = 200
    /\ last.prior # "absent"
    /\ "content" \in DOMAIN chapters[LastKey]
    /\ Truthy(chapters[LastKey].content)
    /\ chapters[LastKey].title = ChapterTitle(last.number)

\* C3: a save sets status "edited" when the record it found has non-empty
\* content and "generated" otherwise, whatever the submitted content is; it
\* never fails for a missing record; the stored word_count is the number of
\* whitespace-delimited words of the submitted content.
SaveStatusRule ==
    [][(last'.op = "save_chapter")
       => LET k == Key(last'.project_id, last'.number)
              had == /\ HasChapter(chapters, k)
                     /\ "content" \in DOMAIN chapters[k]
                     /\ chapters[k].content # None
                     /\ Len(chapters[k].content) > 0
          IN
          /\ last'.status = 200
          /\ HasChapter(chapters', k)
          /\ chapters'[k].status = IF had THEN "edited" ELSE "generated"
          /\ chapters'[k].content = last'.content
          /\ chapters'[k].word_count = Tokens(last'.content)
          /\ last'.word_count = Tokens(last'.content)]_vars

\* empty content was saved over a record with content: edited, zero words
WitnessSaveStatusRule ==
    /\ last.op = "save_chapter"
    /\ last.prior # "absent"
    /\ last.content = <<>>
    /\ chapters[LastKey].status = "edited"
    /\ chapters[LastKey].word_count = 0

\* C4: a generate that fails because the provider is not configured or the
\* provider call raises keeps the record prepare upserted and writes nothing
\* else: a new record is the pending stub, an existing record keeps its
\* content, word_count and status.
FailedGenerateKeepsStub ==
    [][(/\ last'.op = "generate"
        /\ last'.detail \in {"OpenAI is not configured", "OpenAI error"})
       => LET k == Key(last'.project_id, last'.number) IN
          /\ HasChapter(chapters', k)
          /\ DOMAIN chapters' = DOMAIN chapters \cup {k}
          /\ \A j \in (DOMAIN chapters) \ {k} : chapters'[j] = chapters[j]
          /\ projects' = projects
          /\ chapters'[k].title = ChapterTitle(last'.number)
          /\ chapters'[k].pov_used = last'.resolved_pov
          /\ IF HasChapter(chapters, k)
             THEN WritesOnly(chapters[k], chapters'[k], {"title", "pov_used"})
             ELSE /\ chapters'[k].status = "pending"
                  /\ DOMAIN chapters'[k]
                       = {"project_id", "number", "status", "pov_used", "title"}]_vars

\* the provider raised during a generate on a record that has content
WitnessFailedGenerateKeepsStub ==
    /\ last.op = "generate"
    /\ last.detail = "OpenAI error"
    /\ last.prior = "generated"
    /\ chapters[LastKey].status = "generated"
    /\ Truthy(chapters[LastKey].content)

\* C5: prepare, generate and export called with a project_id for which no
\* project exists end with NotFound (404) and leave projects and chapters
\* unchanged; generate then issues no provider request.
MissingProjectIsNotFound ==
    [][(/\ last'.op \in {"prepare", "generate", "export"}
        /\ last'.project_id \notin DOMAIN projects)
       => /\ last'.status = 404
          /\ projects' = projects
          /\ chapters' = chapters
          /\ (last'.op = "generate" => last'.sent = 0)]_vars

\* C6: after a delete_project(p) whose two deletions succeed the store holds
\* no project p and no chapter of p, however many there were, and every
\* project and chapter of another project_id is unchanged.
DeleteProjectCascades ==
    [][(last'.op = "delete_project" /\ last'.status = 200)
       => LET p == last'.project_id IN
          /\ p \notin DOMAIN projects'
          /\ \A k \in DOMAIN chapters' :
                 k[1] # p /\ chapters'[k].project_id # p
          /\ DOMAIN projects' = (DOMAIN projects) \ {p}
          /\ \A q \in DOMAIN projects' : projects'[q] = projects[q]
          /\ DOMAIN chapters' = {k \in DOMAIN chapters : k[1] # p}
          /\ \A k \in DOMAIN chapters' : chapters'[k] = chapters[k]]_vars

\* a delete_project removed two chapters
WitnessDeleteProjectCascades ==
    /\ last.op = "delete_project"
    /\ last.status = 200
    /\ last.deleted >= 2
    /\ \A k \in DOMAIN chapters : k[1] # last.project_id

\* C7: no step takes an existing record from "generated" or "edited" to
\* "pending"; a record is "pending" after a step in which it was not
\* "pending" before only when the prepare of that step inserted it.
NoReturnToPending ==
    [][/\ \A k \in (DOMAIN chapters) \cap (DOMAIN chapters') :
              chapters[k].status \in {"generated", "edited"}
                  => chapters'[k].status # "pending"
       /\ \A k \in DOMAIN chapters' :
              (/\ chapters'[k].status = "pending"
               /\ ~(HasChapter(chapters, k) /\ chapters[k].status = "pending"))
              => /\ ~HasChapter(chapters, k)
                 /\ last'.op \in {"prepare", "generate"}
                 /\ k = Key(last'.project_id, last'.number)]_vars

\* a record with status "generated" was prepared again and kept its status
WitnessNoReturnToPending ==
    /\ last.op = "prepare"
    /\ last.status = 200
    /\ last.prior = "generated"
    /\ chapters[LastKey].status = "generated"
    /\ chapters[LastKey].pov_used = last.resolved_pov

\* C8: the POV prepare resolves is the override when that is female or male,
\* else the project's pov_mode when that is female or male, else (dual)
\* female for an odd chapter number and male for an even one.
PovResolution ==
    (last.op = "prepare" /\ last.status = 200) =>
        LET m == projects[last.project_id].pov_mode
            o == last.override_pov
            n == last.number
            r == last.resolved_pov
            odd == \E j \in 0..n : n = 2 * j + 1
        IN
        /\ n >= 1
        /\ o \in {"female", "male"} => r = o
        /\ (o = "None" /\ m \in {"female", "male"}) => r = m
        /\ (o = "None" /\ m = "dual" /\ odd) => r = "female"
        /\ (o = "None" /\ m = "dual" /\ ~odd) => r = "male"
        /\ chapters[LastKey].pov_used = r

\* an even chapter of a dual project was prepared without override
WitnessPovResolution ==
    /\ last.op = "prepare"
    /\ last.status = 200
    /\ projects[last.project_id].pov_mode = "dual"
    /\ last.override_pov = "None"
    /\ last.number = 2
    /\ last.resolved_pov = "male"

\* C9: generate takes as title the first line that is non-empty after
\* trimming (the placeholder when there is none) and as content the lines
\* strictly after the title line, rejoined and trimmed; content is the whole
\* raw text only when the raw text has no non-empty line.
ContentIsRestAfterTitle ==
    (last.op = "generate" /\ last.status = 200) =>
        LET lines == StrippedLines(last.text)
            idx == FirstNonEmptyIndex(lines)
            k == LastKey
        IN
        /\ chapters[k].title
             = IF idx = 0 THEN ChapterTitle(last.number) ELSE lines[idx]
        /\ chapters[k].content
             = IF idx = 0 THEN last.text
               ELSE Strip(JoinLines(SubSeq(lines, idx + 1, Len(lines))))
        /\ idx # 0 => chapters[k].content # last.text

\* C10: every chapter record with a word_count has a content, and the
\* word_count is the number of whitespace-delimited words of that content.
WordCountMatchesContent ==
    \A k \in DOMAIN chapters :
        "word_count" \in DOMAIN chapters[k]
            => /\ "content" \in DOMAIN chapters[k]
               /\ chapters[k].word_count = Tokens(chapters[k].content)

\* a record written earlier holds a two-word content over two lines
WitnessWordCountMatchesContent ==
    /\ last.op \in {"prepare", "delete_chapter", "delete_project"}
    /\ \E k \in DOMAIN chapters :
           /\ "word_count" \in DOMAIN chapters[k]
           /\ chapters[k].word_count = 2
           /\ \E i \in 1..Len(chapters[k].content) : chapters[k].content[i] = "\n"

\* C11: export of an existing project emits exactly one section per chapter
\* record of that project, none of another project, in strictly ascending
\* chapter number, whatever the order in which the chapters were written.
ExportInNumberOrder ==
    (last.op = "export" /\ last.status = 200) =>
        LET secs == last.sections
            own == {k \in DOMAIN chapters : chapters[k].project_id = last.project_id}
        IN
        /\ Len(secs) = Cardinality(own)
        /\ {secs[i].number : i \in 1..Len(secs)} = {chapters[k].number : k \in own}
        /\ \A i, j \in 1..Len(secs) : i < j => secs[i].number < secs[j].number

\* both chapters of a project were exported, chapter 1 first
WitnessExportInNumberOrder ==
    /\ last.op = "export"
    /\ last.status = 200
    /\ Len(last.sections) = 2
    /\ last.sections[1].number = 1

\* C12: as long as every deletion succeeds, every chapter record's project_id
\* is the id of a project in the store: a step that is not a failed
\* delete_project leaves no orphaned chapter behind.
NoOrphanedChapters ==
    [][(/\ \A k \in DOMAIN chapters : chapters[k].project_id \in DOMAIN projects
        /\ ~(last'.op = "delete_project" /\ last'.status = 500))
       => \A k \in DOMAIN chapters' :
              chapters'[k].project_id \in DOMAIN projects']_vars

\* C16: the chapter_count of an existing project never differs from the
\* value it was created with, whatever operation runs, update_project
\* included (identifiers are never issued twice, so the same identifier is
\* the same project)
ChapterCountFixed ==
    [][\A p \in DOMAIN projects \cap DOMAIN projects' :
           projects'[p].chapter_count = projects[p].chapter_count]_vars

\* C17: no chapter record has status 'error'; a generate that fails because
\* the provider is not configured or because the provider call raised does
\* not move the chapter to 'error', so every stored status is pending,
\* generated or edited
NoErrorStatus ==
    \A k \in DOMAIN chapters : chapters[k].status \in {"pending", "generated", "edited"}

\* a generate failed for want of a configured provider on a chapter that a
\* save had made
WitnessNoErrorStatus ==
    /\ last.op = "generate"
    /\ last.detail = "OpenAI is not configured"
    /\ last.prior = "generated"
    /\ chapters[LastKey].status = "generated"

\* C18 as stated: a generate sends exactly one provider request when the
\* project exists and the provider is configured, and none otherwise
OneRequestWhenConfigured ==
    last.op = "generate" =>
        last.sent = IF /\ last.project_id \in DOMAIN projects
                       /\ openai_client = "client"
                    THEN 1 ELSE 0

\* C18: a generate sends at most one provider request and never retries:
\* exactly one when the project exists, the request names the openai
\* provider and the provider is configured, the provider call failing or
\* not; none when the project is absent, the request names no supported
\* provider or the provider is not configured
OneRequestPerGenerate ==
    last.op = "generate" =>
        last.sent = IF /\ last.project_id \in DOMAIN projects
                       /\ last.provider = "openai"
                       /\ openai_client = "client"
                    THEN 1 ELSE 0

\* the provider call of a generate raised
WitnessOneRequestPerGenerate ==
    /\ last.op = "generate"
    /\ last.detail = "OpenAI error"
    /\ last.sent = 1

\* C19: a chapter record has status pending exactly when it has neither a
\* content field nor a word_count field; a record with status generated or
\* edited has both
PendingIffNoContent ==
    \A k \in DOMAIN chapters :
        LET has(f) == f \in DOMAIN chapters[k]
        IN /\ chapters[k].status = "pending" <=> (~has("content") /\ ~has("word_count"))
           /\ chapters[k].status \in {"generated", "edited"}
                  => (has("content") /\ has("word_count"))

\* a prepared chapter next to a chapter that a generate wrote
WitnessPendingIffNoContent ==
    /\ \E k \in DOMAIN chapters : chapters[k].status = "pending"
    /\ last.op = "generate" /\ last.status = 200
    /\ chapters[LastKey].status = "generated"

\* the chapters of store whose content a generate wrote and whose status is
\* generated
GeneratedByGenerate(store, writers) ==
    {k \in DOMAIN store :
        /\ store[k].status = "generated"
        /\ k \in DOMAIN writers
        /\ writers[k].by = "generate"}

\* C15 as stated: for every chapter whose status is generated and whose
\* content was written by generate, pov_used is female or male and is the
\* POV resolved for the generate call that produced the content
PovUsedIsGeneratedPov ==
    \A k \in GeneratedByGenerate(chapters, written) :
        /\ chapters[k].pov_used \in {"female", "male"}
        /\ chapters[k].pov_used = written[k].pov

\* C15: for every chapter whose status is generated and whose content was
\* written by generate, pov_used is female or male; it is the POV resolved
\* by the most recent prepare or generate call that reached the upsert for
\* the chapter's key: that of the generate that produced the content until
\* a later prepare or a later failed generate resolves one for the key, and
\* no other operation changes it
PovUsedIsLastResolved ==
    [][\A k \in GeneratedByGenerate(chapters', written') :
           /\ chapters'[k].pov_used \in {"female", "male"}
           /\ IF /\ last'.op \in {"prepare", "generate"}
                 /\ "resolved_pov" \in DOMAIN last'
                 /\ Key(last'.project_id, last'.number) = k
              THEN /\ chapters'[k].pov_used = last'.resolved_pov
                   /\ last'.status = 200 /\ last'.op = "generate"
                          => written'[k].pov = last'.resolved_pov
              ELSE /\ k \in GeneratedByGenerate(chapters, written)
                   /\ chapters'[k].pov_used = chapters[k].pov_used
                   /\ written'[k] = written[k]]_vars

\* a prepare gave a chapter that a generate had written another POV
WitnessPovUsedIsLastResolved ==
    /\ last.op = "prepare"
    /\ last.status = 200
    /\ LastKey \in GeneratedByGenerate(chapters, written)
    /\ chapters[LastKey].pov_used # written[LastKey].pov

\* C20: the provider request of a generate carries the temperature of the
\* caller for every accepted temperature, 0.0 and 2.0 included, and the
\* model of the caller; the defaults are used only when the caller gave no
\* value
RequestCarriesPayload ==
    (last.op = "generate" /\ last.sent = 1) =>
        /\ last.request.temperature =
               IF last.payload.temperature = {} THEN {DefaultTemperature}
               ELSE last.payload.temperature
        /\ last.request.model =
               IF last.payload.model = "None" THEN DefaultModel
               ELSE last.payload.model

\* C13: a save is one atomic mutation of its key: when saves for a key
\* interleave with each other or with a generate, the status a save writes
\* is edited exactly when the content of the record immediately before that
\* write is non-empty, and generated otherwise
SaveStatusFromCurrentContent ==
    [][\A p \in DOMAIN calls \cap DOMAIN calls' :
           (calls[p].pc = "save_found" /\ calls'[p].pc = "done") =>
               LET k == Key(calls[p].project_id, calls[p].number)
               IN chapters'[k].status =
                      IF ExistingHasContent(chapters, k) THEN "edited"
                      ELSE "generated"]_vars

\* the two workers both ran a generate to its end for the same key, p last
BothGenerated(p, q) ==
    /\ p # q
    /\ calls[p].pc = "done" /\ calls[p].op = "generate"
    /\ calls[q].pc = "done" /\ calls[q].op = "generate"
    /\ calls[p].project_id = calls[q].project_id
    /\ calls[p].number = calls[q].number
    /\ calls[p].at > calls[q].at

\* C14: when two generates for the same key interleave in any order and
\* both succeed, then once both are over the title, content, pov_used,
\* word_count and status of the record are the values written by the call
\* whose final write was last
LastWriteWins ==
    \A p, q \in DOMAIN calls :
        BothGenerated(p, q) =>
            LET c == calls[p]
                doc == chapters[Key(c.project_id, c.number)]
            IN /\ doc.title = ExtractedTitle(c.text, ChapterTitle(c.number))
               /\ doc.content = FinalContent(c.text)
               /\ doc.pov_used = c.resolved
               /\ doc.word_count = Tokens(FinalContent(c.text))
               /\ doc.status = "generated"

\* two generates for one key, with different POVs and different texts, were
\* both over
WitnessLastWriteWins ==
    \E p, q \in DOMAIN calls :
        /\ BothGenerated(p, q)
        /\ calls[p].resolved # calls[q].resolved
        /\ calls[p].text # calls[q].text
        /\ chapters[Key(calls[p].project_id, calls[p].number)].pov_used = calls[p].resolved

====
